---- MODULE Spec2Model ----
(***************************************************************************)
(* Risk scoring of social-media accounts: risk_engine.calculate_risk_score *)
(* together with the batch runner (analyze_batch_accounts,                 *)
(* get_risk_distribution) and the demo fixtures of data_generator.         *)
(*                                                                         *)
(* Representation.                                                         *)
(*   - Time is counted in whole days.  `now` is the day datetime.now()     *)
(*     falls in; created_date is a day number, so that                     *)
(*     (datetime.now() - created_date).days is now - created_date.         *)
(*   - posts_per_day is a float with two decimals (the generators round    *)
(*     it to 2 places); it is held in hundredths, 1.33 being 133.          *)
(*   - followers / following is held as the exact fraction; it is compared *)
(*     with 0.1 and 10 by cross multiplication.                            *)
(*   - An explanation is a tuple <<text>> or <<text, value>>: the text of  *)
(*     the f-string with {} where the value is substituted.  The marks of  *)
(*     the source are written [flag], [warn], [info] and [ok].             *)
(*   - A call that raises yields [status |-> "raised", error |-> ...].     *)
(*   - A record whose following is a text instead of a number holds it     *)
(*     under following_text and has no numeric field following.            *)
(***************************************************************************)
EXTENDS Integers, Sequences, FiniteSets, TLC

VARIABLES now, account, result, first, call_day, df, results, distribution

vars == <<now, account, result, first, call_day, df, results, distribution>>

\* Days the clock may advance during a run.
MaxTicks == 1

\* Largest number of records of a generated batch.
MaxBatch == 2

max_score == 100

NoResult == [status |-> "none"]

Raised(e) == [status |-> "raised", error |-> e]

Min(a, b) == IF a < b THEN a ELSE b

(***************************************************************************)
(* Python's true division of two non-negative integers.                    *)
(***************************************************************************)
Divide(a, b) ==
    IF b = 0 THEN [ok |-> FALSE, num |-> 0, den |-> 0]
    ELSE [ok |-> TRUE, num |-> a, den |-> b]

\* ratio < p/q and ratio > p/q for a fraction with a positive denominator
RatioLess(r, p, q) == r.num * q < p * r.den

RatioGreater(r, p, q) == r.num * q > p * r.den

(***************************************************************************)
(* f"{x:.1f}" of a value given in hundredths, as tenths.  The inputs of    *)
(* the model have no hundredths digit 5, so no tie is ever rounded.        *)
(***************************************************************************)
Format1f(h) == (h + 5) \div 10

\* the running state of one call: risk_score, explanations, and what was raised
Start == [risk_score |-> 0, explanations |-> <<>>, raised |-> ""]

Add(st, points, expl) ==
    [st EXCEPT !.risk_score = @ + points, !.explanations = Append(@, expl)]

account_age_days(acc, today) == today - acc.created_date

\* seeded fault: the age thresholds compared with <=
Factor1_Inclusive(acc, today, st) ==
    LET age == account_age_days(acc, today) IN
    IF age <= 30 THEN
        Add(st, 15, <<"[flag] Very new account (less than 1 month old)">>)
    ELSE IF age <= 90 THEN
        Add(st, 8, <<"[warn] Relatively new account (less than 3 months)">>)
    ELSE IF age <= 180 THEN
        Add(st, 3, <<"[info] Account is less than 6 months old">>)
    ELSE st

\* FACTOR 1: Account Age
Factor1(acc, today, st) ==
    LET age == account_age_days(acc, today) IN
    IF age < 30 THEN
        Add(st, 15, <<"[flag] Very new account (less than 1 month old)">>)
    ELSE IF age < 90 THEN
        Add(st, 8, <<"[warn] Relatively new account (less than 3 months)">>)
    ELSE IF age < 180 THEN
        Add(st, 3, <<"[info] Account is less than 6 months old">>)
    ELSE st

\* the field holds a number: comparing a text with 0 raises TypeError
IsNumber(acc, field) == field \in DOMAIN acc

\* seeded fault: the guard lets following = 0 through to the division
RatioGuard_NonNegative(acc) == acc.following >= 0

\* the guard of FACTOR 2
RatioGuard(acc) == acc.following > 0

\* seeded fault: the influencer branch takes points off instead of adding 0
Factor2_Bonus(acc, st) ==
    IF ~IsNumber(acc, "following") THEN [st EXCEPT !.raised = "TypeError"]
    ELSE IF RatioGuard(acc) THEN
        LET ff_ratio == Divide(acc.followers, acc.following) IN
        IF ~ff_ratio.ok THEN [st EXCEPT !.raised = "ZeroDivisionError"]
        ELSE IF acc.following > 2000 /\ acc.followers < 100 THEN
            Add(st, 20, <<"[flag] Suspicious follow pattern: Following many, very few followers (bot-like)">>)
        ELSE IF RatioLess(ff_ratio, 1, 10) THEN
            Add(st, 12, <<"[warn] Low follower-to-following ratio (potential spam behavior)">>)
        ELSE IF RatioGreater(ff_ratio, 10, 1) /\ acc.followers > 5000 THEN
            Add(st, 0 - 12, <<"[ok] High influence: Many followers, selective following (typical influencer/business)">>)
        ELSE st
    ELSE st

\* FACTOR 2: Follower/Following Ratio
Factor2(acc, st) ==
    IF ~IsNumber(acc, "following") THEN [st EXCEPT !.raised = "TypeError"]
    ELSE IF RatioGuard(acc) THEN
        LET ff_ratio == Divide(acc.followers, acc.following) IN
        IF ~ff_ratio.ok THEN [st EXCEPT !.raised = "ZeroDivisionError"]
        ELSE IF acc.following > 2000 /\ acc.followers < 100 THEN
            Add(st, 20, <<"[flag] Suspicious follow pattern: Following many, very few followers (bot-like)">>)
        ELSE IF RatioLess(ff_ratio, 1, 10) THEN
            Add(st, 12, <<"[warn] Low follower-to-following ratio (potential spam behavior)">>)
        ELSE IF RatioGreater(ff_ratio, 10, 1) /\ acc.followers > 5000 THEN
            Add(st, 0, <<"[ok] High influence: Many followers, selective following (typical influencer/business)">>)
        ELSE st
    ELSE st

\* seeded fault: the top bucket of posting frequency is worth 25 points
Factor3_Heavy(acc, st) ==
    IF acc.posts_per_day > 1000 THEN
        Add(st, 25, <<"[flag] Extremely high posting frequency ({} posts/day - likely automated)",
                      Format1f(acc.posts_per_day)>>)
    ELSE IF acc.posts_per_day > 500 THEN
        Add(st, 12, <<"[warn] High posting frequency ({} posts/day)",
                      Format1f(acc.posts_per_day)>>)
    ELSE IF acc.posts_per_day > 300 THEN
        Add(st, 5, <<"[info] Active posting ({} posts/day - could be legitimate business)",
                     Format1f(acc.posts_per_day)>>)
    ELSE st

\* FACTOR 3: Posting Frequency (posts_per_day in hundredths)
Factor3(acc, st) ==
    IF acc.posts_per_day > 1000 THEN
        Add(st, 20, <<"[flag] Extremely high posting frequency ({} posts/day - likely automated)",
                      Format1f(acc.posts_per_day)>>)
    ELSE IF acc.posts_per_day > 500 THEN
        Add(st, 12, <<"[warn] High posting frequency ({} posts/day)",
                      Format1f(acc.posts_per_day)>>)
    ELSE IF acc.posts_per_day > 300 THEN
        Add(st, 5, <<"[info] Active posting ({} posts/day - could be legitimate business)",
                     Format1f(acc.posts_per_day)>>)
    ELSE st

\* FACTOR 4: Content Repetition
Factor4(acc, st) ==
    IF acc.repetitive_content > 70 THEN
        Add(st, 15, <<"[flag] Very repetitive content ({}% similar posts)", acc.repetitive_content>>)
    ELSE IF acc.repetitive_content > 50 THEN
        Add(st, 8, <<"[warn] Moderately repetitive content ({}% - could be marketing)",
                     acc.repetitive_content>>)
    ELSE IF acc.repetitive_content > 30 THEN
        Add(st, 3, <<"[info] Some content repetition ({}% - possibly promotional)",
                     acc.repetitive_content>>)
    ELSE st

\* seeded fault: mass messaging starts at 100 messages a day
Factor5_Lenient(acc, st) ==
    IF acc.messages_sent_per_day > 100 THEN
        Add(st, 15, <<"[flag] Mass messaging activity ({} messages/day)", acc.messages_sent_per_day>>)
    ELSE IF acc.messages_sent_per_day > 20 THEN
        Add(st, 8, <<"[warn] High messaging volume ({} messages/day)", acc.messages_sent_per_day>>)
    ELSE st

\* FACTOR 5: Messaging Behavior
Factor5(acc, st) ==
    IF acc.messages_sent_per_day > 50 THEN
        Add(st, 15, <<"[flag] Mass messaging activity ({} messages/day)", acc.messages_sent_per_day>>)
    ELSE IF acc.messages_sent_per_day > 20 THEN
        Add(st, 8, <<"[warn] High messaging volume ({} messages/day)", acc.messages_sent_per_day>>)
    ELSE st

\* seeded fault: the lowest bucket of suspicious links adds its points
\* without an explanation
Factor6_Silent(acc, st) ==
    IF acc.suspicious_links > 40 THEN
        Add(st, 10, <<"[flag] Many suspicious links ({}% of posts)", acc.suspicious_links>>)
    ELSE IF acc.suspicious_links > 20 THEN
        Add(st, 6, <<"[warn] Moderate suspicious links ({}% of posts)", acc.suspicious_links>>)
    ELSE IF acc.suspicious_links > 10 THEN
        [st EXCEPT !.risk_score = @ + 2]
    ELSE st

\* FACTOR 6: Suspicious Links
Factor6(acc, st) ==
    IF acc.suspicious_links > 40 THEN
        Add(st, 10, <<"[flag] Many suspicious links ({}% of posts)", acc.suspicious_links>>)
    ELSE IF acc.suspicious_links > 20 THEN
        Add(st, 6, <<"[warn] Moderate suspicious links ({}% of posts)", acc.suspicious_links>>)
    ELSE IF acc.suspicious_links > 10 THEN
        Add(st, 2, <<"[info] Some external links ({}% - possibly promotional)", acc.suspicious_links>>)
    ELSE st

\* FACTOR 7: Network Connections
Factor7(acc, st) ==
    IF acc.network_flags > 3 THEN
        Add(st, 5, <<"[flag] Connected to {} flagged accounts (coordinated behavior)", acc.network_flags>>)
    ELSE IF acc.network_flags > 0 THEN
        Add(st, 2, <<"[warn] Connected to {} flagged account(s)", acc.network_flags>>)
    ELSE st

\* Normalize score to 0-100
Normalize(st) == [st EXCEPT !.risk_score = Min(@, max_score)]

HighRecommendation ==
    "Strong indicators of malicious activity. Recommend immediate review and possible restriction."

ModerateRecommendation ==
    "Unusual patterns detected. May be legitimate but warrants human review."

LowRecommendation == "Activity appears normal. Account likely legitimate."

\* seeded fault: the band thresholds compared with >
RiskBand_Exclusive(risk_score) ==
    IF risk_score > 70 THEN
        [risk_level |-> "HIGH RISK", risk_color |-> "red",
         recommendation |-> HighRecommendation]
    ELSE IF risk_score > 40 THEN
        [risk_level |-> "MODERATE RISK", risk_color |-> "yellow",
         recommendation |-> ModerateRecommendation]
    ELSE
        [risk_level |-> "LOW RISK", risk_color |-> "green",
         recommendation |-> LowRecommendation]

\* Determine risk level: risk_level, risk_color, recommendation
RiskBand(risk_score) ==
    IF risk_score >= 70 THEN
        [risk_level |-> "HIGH RISK", risk_color |-> "red",
         recommendation |-> HighRecommendation]
    ELSE IF risk_score >= 40 THEN
        [risk_level |-> "MODERATE RISK", risk_color |-> "yellow",
         recommendation |-> ModerateRecommendation]
    ELSE
        [risk_level |-> "LOW RISK", risk_color |-> "green",
         recommendation |-> LowRecommendation]

AppendIf(s, cond, e) == IF cond THEN Append(s, e) ELSE s

\* seeded fault: the positive signals are added up to and including 40 points
PositiveSignals_Inclusive(acc, today, st) ==
    IF st.risk_score <= 40 THEN
        LET e1 == AppendIf(st.explanations, acc.verified, <<"[ok] Verified account">>)
            e2 == AppendIf(e1, acc.has_profile_pic, <<"[ok] Has profile picture">>)
            e3 == AppendIf(e2, acc.bio_length > 50, <<"[ok] Complete profile with bio">>)
            e4 == AppendIf(e3, account_age_days(acc, today) > 365,
                           <<"[ok] Established account (over 1 year old)">>)
        IN [st EXCEPT !.explanations = e4]
    ELSE st

\* Add positive signals if low risk
PositiveSignals(acc, today, st) ==
    IF st.risk_score < 40 THEN
        LET e1 == AppendIf(st.explanations, acc.verified, <<"[ok] Verified account">>)
            e2 == AppendIf(e1, acc.has_profile_pic, <<"[ok] Has profile picture">>)
            e3 == AppendIf(e2, acc.bio_length > 50, <<"[ok] Complete profile with bio">>)
            e4 == AppendIf(e3, account_age_days(acc, today) > 365,
                           <<"[ok] Established account (over 1 year old)">>)
        IN [st EXCEPT !.explanations = e4]
    ELSE st

\* seeded fault: content repetition is evaluated before posting frequency
Factors_Swapped(acc, today) ==
    LET s1 == Factor1(acc, today, Start)
        s2 == Factor2(acc, s1)
    IN IF s2.raised /= "" THEN s2
       ELSE Factor7(acc, Factor6(acc, Factor5(acc, Factor3(acc, Factor4(acc, s2)))))

\* the seven factors in the order of the source; a raise ends the call
Factors(acc, today) ==
    LET s1 == Factor1(acc, today, Start)
        s2 == Factor2(acc, s1)
    IN IF s2.raised /= "" THEN s2
       ELSE Factor7(acc, Factor6(acc, Factor5(acc, Factor4(acc, Factor3(acc, s2)))))

calculate_risk_score(acc, today) ==
    LET summed == Factors(acc, today) IN
    IF summed.raised /= "" THEN Raised(summed.raised)
    ELSE
        LET st   == Normalize(summed)
            band == RiskBand(st.risk_score)
            fin  == PositiveSignals(acc, today, st)
        IN [status         |-> "ok",
            risk_score     |-> fin.risk_score,
            risk_level     |-> band.risk_level,
            risk_color     |-> band.risk_color,
            recommendation |-> band.recommendation,
            explanations   |-> fin.explanations,
            account_id     |-> acc.account_id]


(***************************************************************************)
(* The batch runner.                                                       *)
(***************************************************************************)
RECURSIVE ScoreRows(_, _, _)
\* the loop of analyze_batch_accounts from row i on: one full_result per
\* row, in input order; a call that raises ends the loop
ScoreRows(d, today, i) ==
    IF i > Len(d) THEN [status |-> "ok", rows |-> <<>>]
    ELSE
        LET res == calculate_risk_score(d[i], today) IN
        IF res.status /= "ok" THEN res
        ELSE
            LET full_result == res @@ d[i]
                rest == ScoreRows(d, today, i + 1)
            IN IF rest.status /= "ok" THEN rest
               ELSE [status |-> "ok", rows |-> <<full_result>> \o rest.rows]

analyze_batch_accounts(d, today) == ScoreRows(d, today, 1)

\* Series.value_counts().to_dict(): a count for each level that occurs
value_counts(rows) ==
    [l \in {rows[i].risk_level : i \in DOMAIN rows} |->
        Cardinality({i \in DOMAIN rows : rows[i].risk_level = l})]

\* dict.get(key, default)
Get(d, key, default) == IF key \in DOMAIN d THEN d[key] ELSE default

RECURSIVE SumScores(_, _)
SumScores(rows, i) ==
    IF i > Len(rows) THEN 0 ELSE rows[i].risk_score + SumScores(rows, i + 1)

\* Series.mean(), as the exact fraction num/den
mean(rows) == [num |-> SumScores(rows, 1), den |-> Len(rows)]

\* seeded fault: the moderate band is looked up under a key that never occurs
get_risk_distribution_WrongKey(results_df) ==
    IF results_df.status /= "ok" THEN results_df
    ELSE IF results_df.rows = <<>> THEN Raised("KeyError")
    ELSE
        LET dist == value_counts(results_df.rows) IN
        [status        |-> "ok",
         high_risk     |-> Get(dist, "HIGH RISK", 0),
         moderate_risk |-> Get(dist, "MEDIUM RISK", 0),
         low_risk      |-> Get(dist, "LOW RISK", 0),
         total         |-> Len(results_df.rows),
         avg_score     |-> mean(results_df.rows)]

\* A frame built from no rows has no columns: selecting one raises KeyError.
get_risk_distribution(results_df) ==
    IF results_df.status /= "ok" THEN results_df
    ELSE IF results_df.rows = <<>> THEN Raised("KeyError")
    ELSE
        LET dist == value_counts(results_df.rows) IN
        [status        |-> "ok",
         high_risk     |-> Get(dist, "HIGH RISK", 0),
         moderate_risk |-> Get(dist, "MODERATE RISK", 0),
         low_risk      |-> Get(dist, "LOW RISK", 0),
         total         |-> Len(results_df.rows),
         avg_score     |-> mean(results_df.rows)]

(***************************************************************************)
(* data_generator: the demo fixtures and the random accounts.              *)
(***************************************************************************)
Record(id, created, fl, fg, ppd, bio, pic, ver, msgs, rep, links, flags) ==
    [account_id            |-> id,
     created_date          |-> created,
     followers             |-> fl,
     following             |-> fg,
     posts_per_day         |-> ppd,
     bio_length            |-> bio,
     has_profile_pic       |-> pic,
     verified              |-> ver,
     messages_sent_per_day |-> msgs,
     repetitive_content    |-> rep,
     suspicious_links      |-> links,
     network_flags         |-> flags]

get_sample_accounts_for_demo(today) ==
    << Record("demo_coffee_shop", today - 45, 250, 150, 133, 180, TRUE, FALSE, 8, 35, 5, 0),
       Record("demo_influencer", today - 90, 5000, 200, 333, 150, TRUE, FALSE, 15, 40, 15, 1),
       Record("demo_scammer", today - 10, 50, 3000, 1500, 80, TRUE, FALSE, 80, 85, 60, 5) >>

\* round(posts / days_old, 2) in hundredths, for quotients that are not ties
Round2(posts, days_old) == (posts * 200 + days_old) \div (2 * days_old)

\* Each generator yields the accounts of a few draws within its ranges.
generate_normal_user(id_num, today) ==
    { Record("user_" \o ToString(id_num), today - 400, 500, 300, Round2(100, 400),
             100, TRUE, v, 5, 10, 0, 0) : v \in BOOLEAN }

generate_business_account(id_num, today) ==
    { Record("biz_" \o ToString(id_num), today - 60, 6000, 100, Round2(600, 60),
             200, TRUE, FALSE, 20, 40, 10, 0) }

generate_bot_account(id_num, today) ==
    { Record("bot_" \o ToString(id_num), today - 10, 50, 3000, Round2(500, 10),
             20, FALSE, FALSE, 60, 80, 30, 4) }

generate_scammer_account(id_num, today) ==
    { Record("scam_" \o ToString(id_num), today - d, 500, 1000, Round2(100, d),
             100, TRUE, FALSE, 60, 75, l, 2) : d \in {45}, l \in {30, 80} }

RECURSIVE generate_mock_accounts(_, _)
\* the frames generate_mock_accounts(num_accounts) can return
generate_mock_accounts(num_accounts, today) ==
    IF num_accounts = 0 THEN {<<>>}
    ELSE
        LET i == num_accounts - 1 IN
        { Append(s, a) :
            s \in generate_mock_accounts(i, today),
            a \in generate_normal_user(i, today) \cup generate_business_account(i, today)
                  \cup generate_bot_account(i, today) \cup generate_scammer_account(i, today) }

(***************************************************************************)
(* The records a caller may hand to calculate_risk_score: every field      *)
(* takes the values on and around the thresholds of its factor.            *)
(***************************************************************************)
CreatedDates == {-29, -89, -179, -365}

Followers == {0, 10, 99, 100, 5001}

Followings == {0, 100, 2000, 2001}

PostsPerDay == {300, 500, 1000, 1500}

Repetitive == {30, 50, 70, 85}

Messages == {20, 50, 80}

Links == {10, 20, 40, 60}

NetworkFlags == {0, 3, 5}

BioLengths == {50, 51}

\* the records of the single-account page: the profile fields are fixed
FormAccounts ==
    { Record("custom_account_001", c, fl, fg, ppd, 100, TRUE, FALSE, msgs, rep, links, flags) :
        c \in CreatedDates, fl \in Followers, fg \in Followings, ppd \in PostsPerDay,
        msgs \in Messages, rep \in Repetitive, links \in Links, flags \in NetworkFlags }

\* records with every combination of the profile fields, below and above 40 points
ProfileAccounts ==
    { Record("profile_account", c, fl, 100, ppd, bio, pic, ver, msgs, 30, 10, 0) :
        c \in CreatedDates, fl \in {100, 5001}, ppd \in {300, 1500}, bio \in BioLengths,
        pic \in BOOLEAN, ver \in BOOLEAN, msgs \in {20, 80} }

Accounts == FormAccounts \cup ProfileAccounts

NoAccount == Record("", 0, 0, 0, 0, 0, FALSE, FALSE, 0, 0, 0, 0)

NoFrame == <<>>

\* call_day before any call
NoDay == 0 - 1

(***************************************************************************)
(* Scoring one record: a caller holds a record and calls                   *)
(* calculate_risk_score on it, on the day the call is made.                *)
(***************************************************************************)
Init ==
    /\ now = 0
    /\ account \in Accounts
    /\ result = NoResult
    /\ first = NoResult
    /\ call_day = NoDay
    /\ df = NoFrame
    /\ results = NoResult
    /\ distribution = NoResult

\* a call of calculate_risk_score(account); first keeps the result of the
\* first call on this record, call_day the day of the latest call
Score ==
    /\ result' = calculate_risk_score(account, now)
    /\ first' = IF first = NoResult THEN result' ELSE first
    /\ call_day' = now
    /\ UNCHANGED <<now, account, df, results, distribution>>

\* midnight passes: datetime.now() moves to the next day
Tick ==
    /\ now < MaxTicks
    /\ now' = now + 1
    /\ UNCHANGED <<account, result, first, call_day, df, results, distribution>>

Next == Score \/ Tick

Spec == Init /\ [][Next]_vars

(***************************************************************************)
(* Scoring batches: the demo page, the random-batch page.                  *)
(***************************************************************************)
InitBatch ==
    /\ now = 0
    /\ account = NoAccount
    /\ result = NoResult
    /\ first = NoResult
    /\ call_day = NoDay
    /\ df = NoFrame
    /\ results = NoResult
    /\ distribution = NoResult

\* show_risk_summary(results) reads get_risk_distribution(results)
Analyze(d) ==
    /\ df' = d
    /\ results' = analyze_batch_accounts(d, now)
    /\ distribution' = get_risk_distribution(results')
    /\ call_day' = now
    /\ UNCHANGED <<now, account, result, first>>

show_demo_analysis == Analyze(get_sample_accounts_for_demo(now))

show_batch_analysis ==
    \E n \in 0..MaxBatch : \E d \in generate_mock_accounts(n, now) : Analyze(d)

NextBatch == show_demo_analysis \/ show_batch_analysis \/ Tick

SpecBatch == InitBatch /\ [][NextBatch]_vars

(***************************************************************************)
(* Scoring a frame handed in by a caller, as the self-test of risk_engine  *)
(* does: the frame may hold a record whose following is a text.            *)
(***************************************************************************)
\* the record with a text in following
Malformed(acc) ==
    [f \in (DOMAIN acc \ {"following"}) \cup {"following_text"} |->
        IF f = "following_text" THEN "many" ELSE acc[f]]

\* the records a caller's frame is made of
CallerRecords(today) ==
    LET demo == get_sample_accounts_for_demo(today) IN
    {demo[i] : i \in DOMAIN demo}
        \cup generate_bot_account(0, today) \cup generate_business_account(0, today)
        \cup {Malformed(demo[1]), Malformed(demo[3])}

RECURSIVE Frames(_, _)
\* the frames of n rows
Frames(n, today) ==
    IF n = 0 THEN {<<>>}
    ELSE {Append(s, a) : s \in Frames(n - 1, today), a \in CallerRecords(today)}

analyze_frame ==
    \E n \in 0..MaxBatch : \E d \in Frames(n, now) : Analyze(d)

NextCaller == analyze_frame \/ Tick

SpecCaller == InitBatch /\ [][NextCaller]_vars

(***************************************************************************)
(* The properties.  The point tables below are written from the stated     *)
(* thresholds, not from the Factor operators.                              *)
(***************************************************************************)
Scored == result.status = "ok"

\* the age of the record on the day of the latest call
AgeAtCall == call_day - account.created_date

AgePoints(age) ==
    IF age < 30 THEN 15 ELSE IF age < 90 THEN 8 ELSE IF age < 180 THEN 3 ELSE 0

RatioPoints(acc) ==
    IF acc.following > 2000 /\ acc.followers < 100 THEN 20
    ELSE IF acc.following > 0 /\ 10 * acc.followers < acc.following THEN 12
    ELSE 0

FrequencyPoints(acc) ==
    IF acc.posts_per_day > 1000 THEN 20
    ELSE IF acc.posts_per_day > 500 THEN 12
    ELSE IF acc.posts_per_day > 300 THEN 5
    ELSE 0

RepetitionPoints(acc) ==
    IF acc.repetitive_content > 70 THEN 15
    ELSE IF acc.repetitive_content > 50 THEN 8
    ELSE IF acc.repetitive_content > 30 THEN 3
    ELSE 0

MessagingPoints(acc) ==
    IF acc.messages_sent_per_day > 50 THEN 15
    ELSE IF acc.messages_sent_per_day > 20 THEN 8
    ELSE 0

LinkPoints(acc) ==
    IF acc.suspicious_links > 40 THEN 10
    ELSE IF acc.suspicious_links > 20 THEN 6
    ELSE IF acc.suspicious_links > 10 THEN 2
    ELSE 0

NetworkPoints(acc) ==
    IF acc.network_flags > 3 THEN 5 ELSE IF acc.network_flags > 0 THEN 2 ELSE 0

\* the six factors other than the follow ratio
SixFactorPoints(acc, age) ==
    AgePoints(age) + FrequencyPoints(acc) + RepetitionPoints(acc)
        + MessagingPoints(acc) + LinkPoints(acc) + NetworkPoints(acc)

SevenFactorPoints(acc, age) == SixFactorPoints(acc, age) + RatioPoints(acc)

\* the texts of the explanations, first of the seven factors in the order
\* age, follow ratio, posting frequency, content repetition, messaging,
\* suspicious links, network flags, then of the four positive signals in the
\* order verified, profile picture, bio, established account
ExplanationOrder ==
    << {"[flag] Very new account (less than 1 month old)",
        "[warn] Relatively new account (less than 3 months)",
        "[info] Account is less than 6 months old"},
       {"[flag] Suspicious follow pattern: Following many, very few followers (bot-like)",
        "[warn] Low follower-to-following ratio (potential spam behavior)",
        "[ok] High influence: Many followers, selective following (typical influencer/business)"},
       {"[flag] Extremely high posting frequency ({} posts/day - likely automated)",
        "[warn] High posting frequency ({} posts/day)",
        "[info] Active posting ({} posts/day - could be legitimate business)"},
       {"[flag] Very repetitive content ({}% similar posts)",
        "[warn] Moderately repetitive content ({}% - could be marketing)",
        "[info] Some content repetition ({}% - possibly promotional)"},
       {"[flag] Mass messaging activity ({} messages/day)",
        "[warn] High messaging volume ({} messages/day)"},
       {"[flag] Many suspicious links ({}% of posts)",
        "[warn] Moderate suspicious links ({}% of posts)",
        "[info] Some external links ({}% - possibly promotional)"},
       {"[flag] Connected to {} flagged accounts (coordinated behavior)",
        "[warn] Connected to {} flagged account(s)"},
       {"[ok] Verified account"},
       {"[ok] Has profile picture"},
       {"[ok] Complete profile with bio"},
       {"[ok] Established account (over 1 year old)"} >>

\* the explanations of r whose text belongs to place k of ExplanationOrder
Has(r, k) == \E i \in DOMAIN r.explanations : r.explanations[i][1] \in ExplanationOrder[k]

\* C1: every result carries a risk_score between 0 and 100.
C1_ScoreInRange == Scored => result.risk_score >= 0 /\ result.risk_score <= 100

\* a record that reaches the cap of 100 has been scored
C1_Witness == Scored /\ result.risk_score = 100

\* C2: risk_score is min(100, sum of the seven factor contributions), each
\* factor giving the points of its first satisfied strict threshold, so that a
\* value on a threshold falls into the next lower bucket.
C2_ScoreIsClampedSum ==
    Scored => result.risk_score = Min(100, SevenFactorPoints(account, AgeAtCall))

\* a record aged exactly 30 days with exactly 10 posts a day has been scored
C2_Witness ==
    /\ Scored
    /\ AgeAtCall = 30
    /\ account.posts_per_day = 1000
    /\ result.explanations[1] = <<"[warn] Relatively new account (less than 3 months)">>
    /\ \E i \in DOMAIN result.explanations :
          result.explanations[i] = <<"[warn] High posting frequency ({} posts/day)", 100>>

\* C3: the band follows from the final score alone (>= 70 HIGH, 40..69
\* MODERATE, below 40 LOW), and colour and recommendation are the fixed
\* values of that band.
C3_BandFromScore ==
    Scored =>
        /\ result.risk_score >= 70 => result.risk_level = "HIGH RISK"
        /\ (result.risk_score >= 40 /\ result.risk_score < 70)
               => result.risk_level = "MODERATE RISK"
        /\ result.risk_score < 40 => result.risk_level = "LOW RISK"
        /\ <<result.risk_level, result.risk_color, result.recommendation>> \in
               { <<"HIGH RISK", "red", HighRecommendation>>,
                 <<"MODERATE RISK", "yellow", ModerateRecommendation>>,
                 <<"LOW RISK", "green", LowRecommendation>> }

\* a record scoring exactly 70 has been put in the high band
C3_Witness == Scored /\ result.risk_score = 70 /\ result.risk_level = "HIGH RISK"

\* C4: with following = 0 the call does not raise, the follow-ratio factor
\* gives no points and no explanation whatever followers is, and the score is
\* that of the other six factors.
C4_ZeroFollowing ==
    (result /= NoResult /\ account.following = 0) =>
        /\ Scored
        /\ ~Has(result, 2)
        /\ result.risk_score = Min(100, SixFactorPoints(account, AgeAtCall))

\* a record following nobody, with many followers, has been scored
C4_Witness ==
    Scored /\ account.following = 0 /\ account.followers > 5000 /\ result.risk_score > 0

\* the record with other profile fields
WithProfile(acc, ver, pic, bio) ==
    [acc EXCEPT !.verified = ver, !.has_profile_pic = pic, !.bio_length = bio]

\* C5: each positive-signal explanation is present exactly when risk_score is
\* below 40 and its own condition holds (verified, has_profile_pic,
\* bio_length > 50, age over 365 days); the profile fields that bring them in
\* change neither risk_score nor risk_level.
C5_PositiveSignals ==
    Scored =>
        /\ Has(result, 8) <=> (result.risk_score < 40 /\ account.verified)
        /\ Has(result, 9) <=> (result.risk_score < 40 /\ account.has_profile_pic)
        /\ Has(result, 10) <=> (result.risk_score < 40 /\ account.bio_length > 50)
        /\ Has(result, 11) <=> (result.risk_score < 40 /\ AgeAtCall > 365)
        /\ \A ver \in BOOLEAN, pic \in BOOLEAN, bio \in BioLengths :
              LET other == calculate_risk_score(WithProfile(account, ver, pic, bio), call_day)
              IN /\ other.status = "ok"
                 /\ other.risk_score = result.risk_score
                 /\ other.risk_level = result.risk_level

\* a low-risk record with all four positive signals has been scored
C5_Witness ==
    /\ Scored
    /\ result.risk_score < 40
    /\ account.verified /\ account.has_profile_pic /\ account.bio_length > 50
    /\ AgeAtCall > 365
    /\ \A k \in 8..11 : Has(result, k)

\* the place of an explanation in ExplanationOrder, 0 if it has none
Place(e) ==
    IF \E k \in DOMAIN ExplanationOrder : e[1] \in ExplanationOrder[k]
    THEN CHOOSE k \in DOMAIN ExplanationOrder : e[1] \in ExplanationOrder[k]
    ELSE 0

\* C6: the explanations come in factor-evaluation order, at most one per
\* factor (age, follow ratio, posting frequency, content repetition,
\* messaging, suspicious links, network flags), then the positive signals in
\* the order verified, profile picture, bio, established account.
C6_ExplanationOrder ==
    Scored =>
        /\ \A i \in DOMAIN result.explanations : Place(result.explanations[i]) > 0
        /\ \A i, j \in DOMAIN result.explanations :
              i < j => Place(result.explanations[i]) < Place(result.explanations[j])

\* a result with an entry of each of the seven factors and two positive signals
C6_Witness ==
    /\ Scored
    /\ Len(result.explanations) = 9
    /\ \A k \in 1..7 : Has(result, k)
    /\ Has(result, 9) /\ Has(result, 10)

\* C7: two calls on the same record give the same result, whenever they are
\* made.
C7_Deterministic ==
    (first.status = "ok" /\ result.status = "ok") => first = result

\* a record scored on two days with two different results
C7_Witness ==
    /\ first.status = "ok" /\ result.status = "ok"
    /\ first.risk_score = 15 + result.risk_score - 8

\* the demo page has analysed its three fixtures
DemoAnalysed ==
    /\ Len(df) = 3
    /\ df[1].account_id = "demo_coffee_shop"
    /\ results.status = "ok"

\* the points a factor adds on its own
PointsOf(st) == st.risk_score

\* C8: scenario A (age 45, followers 250, following 150, 1.33 posts a day,
\* repetition 35, links 5, 8 messages a day, no flags) is LOW RISK with a score
\* under 40 and the legitimate-activity recommendation; scenario B (age 10,
\* followers 50, following 3000, 15.0 posts a day, repetition 85, links 60,
\* 80 messages a day, 5 flags) is HIGH RISK with score exactly 100, its
\* factors giving 15 + 20 + 20 + 15 + 15 + 10 + 5.
C8_Scenarios ==
    DemoAnalysed =>
        LET a == df[1]
            b == df[3]
            ra == results.rows[1]
            rb == results.rows[3]
        IN /\ call_day - a.created_date = 45
           /\ <<a.followers, a.following, a.posts_per_day, a.repetitive_content>>
                  = <<250, 150, 133, 35>>
           /\ <<a.suspicious_links, a.messages_sent_per_day, a.network_flags>> = <<5, 8, 0>>
           /\ ra.risk_level = "LOW RISK"
           /\ ra.risk_score < 40
           /\ ra.recommendation = LowRecommendation
           /\ call_day - b.created_date = 10
           /\ <<b.followers, b.following, b.posts_per_day, b.repetitive_content>>
                  = <<50, 3000, 1500, 85>>
           /\ <<b.suspicious_links, b.messages_sent_per_day, b.network_flags>> = <<60, 80, 5>>
           /\ rb.risk_level = "HIGH RISK"
           /\ rb.risk_score = 100
           /\ << PointsOf(Factor1(b, call_day, Start)), PointsOf(Factor2(b, Start)),
                 PointsOf(Factor3(b, Start)), PointsOf(Factor4(b, Start)),
                 PointsOf(Factor5(b, Start)), PointsOf(Factor6(b, Start)),
                 PointsOf(Factor7(b, Start)) >> = <<15, 20, 20, 15, 15, 10, 5>>

\* the demo page has scored both scenarios
C8_Witness ==
    /\ DemoAnalysed
    /\ results.rows[1].account_id = "demo_coffee_shop"
    /\ results.rows[3].account_id = "demo_scammer"
    /\ results.rows[3].risk_score = 100

\* C9: the three demo accounts show three different risk levels:
\* demo_coffee_shop LOW RISK, demo_influencer MODERATE RISK, demo_scammer
\* HIGH RISK.
C9_DemoLevels ==
    DemoAnalysed =>
        /\ results.rows[1].risk_level = "LOW RISK"
        /\ results.rows[2].risk_level = "MODERATE RISK"
        /\ results.rows[3].risk_level = "HIGH RISK"

RECURSIVE Total(_, _)
\* the sum of the risk scores of rows i..Len(rows)
Total(rows, i) == IF i > Len(rows) THEN 0 ELSE rows[i].risk_score + Total(rows, i + 1)

\* the number of rows in a band
InBand(rows, level) == Cardinality({i \in DOMAIN rows : rows[i].risk_level = level})

\* C10: for a non-empty batch the summary is returned, the three band counts
\* add up to total, total is the number of input records, a band without a
\* record counts 0, and avg_score * total is the sum of the scores.
C10_Distribution ==
    (results /= NoResult /\ Len(df) > 0) =>
        /\ results.status = "ok"
        /\ distribution.status = "ok"
        /\ distribution.high_risk + distribution.moderate_risk + distribution.low_risk
               = distribution.total
        /\ distribution.total = Len(df)
        /\ distribution.high_risk = InBand(results.rows, "HIGH RISK")
        /\ distribution.moderate_risk = InBand(results.rows, "MODERATE RISK")
        /\ distribution.low_risk = InBand(results.rows, "LOW RISK")
        /\ distribution.avg_score.den > 0
        /\ distribution.avg_score.num * distribution.total
               = Total(results.rows, 1) * distribution.avg_score.den

\* a batch of two, one moderate and one high, none low, has been summarised
C10_Witness ==
    /\ distribution.status = "ok"
    /\ distribution.total = 2
    /\ distribution.moderate_risk = 1
    /\ distribution.high_risk = 1
    /\ distribution.low_risk = 0

\* C11: for an empty batch the summary is returned without a raise, with
\* total 0, the three band counts 0 and a defined average (0 or a "no data"
\* value), never an undefined one.
C11_EmptyBatch ==
    (results /= NoResult /\ df = <<>>) =>
        /\ results.status = "ok"
        /\ distribution.status = "ok"
        /\ distribution.total = 0
        /\ <<distribution.high_risk, distribution.moderate_risk, distribution.low_risk>>
               = <<0, 0, 0>>
        /\ \/ distribution.avg_score = [num |-> 0, den |-> 1]
           \/ distribution.avg_score = [num |-> 0, den |-> 0, no_data |-> TRUE]

\* the record can be scored
WellFormed(acc) == IsNumber(acc, "following")

\* the records of the frame that can be scored, in input order
Scorable(d) == SelectSeq(d, WellFormed)

\* C12: when scoring one record of a batch fails, the batch is not aborted:
\* every other record has its assessment in the output, in input order.
C12_Isolation ==
    (/\ results /= NoResult
     /\ \E i \in DOMAIN df : ~WellFormed(df[i])
     /\ \E i \in DOMAIN df : WellFormed(df[i])) =>
        /\ results.status = "ok"
        /\ Len(results.rows) = Len(Scorable(df))
        /\ \A i \in DOMAIN results.rows :
              LET one == calculate_risk_score(Scorable(df)[i], call_day) IN
              /\ results.rows[i].account_id = one.account_id
              /\ results.rows[i].risk_score = one.risk_score
              /\ results.rows[i].risk_level = one.risk_level
              /\ results.rows[i].explanations = one.explanations

\* the points of the factor at place k of ExplanationOrder
PointsAtPlace(k, acc, age) ==
    CASE k = 1 -> AgePoints(age)
      [] k = 2 -> RatioPoints(acc)
      [] k = 3 -> FrequencyPoints(acc)
      [] k = 4 -> RepetitionPoints(acc)
      [] k = 5 -> MessagingPoints(acc)
      [] k = 6 -> LinkPoints(acc)
      [] k = 7 -> NetworkPoints(acc)
      [] OTHER -> 0

\* the number of factors that gave points
NonZeroFactors(acc, age) == Cardinality({k \in 1..7 : PointsAtPlace(k, acc, age) > 0})

InfluencerNote ==
    "[ok] High influence: Many followers, selective following (typical influencer/business)"

\* a note marked [ok]
IsPositiveNote(e) == Place(e) \in 8..11 \/ e[1] = InfluencerNote

\* the input condition of the influencer note
Influencer(acc) ==
    /\ acc.following > 0
    /\ ~(acc.following > 2000 /\ acc.followers < 100)
    /\ acc.followers > 10 * acc.following
    /\ acc.followers > 5000

\* C13, as stated: every explanation is that of a factor that gave more than
\* 0 points, or a positive note, and positive notes are present only below 40
\* points; from 40 points on the explanations are as many as the factors that
\* gave points and none of them is a positive note.
C13_AsStated ==
    Scored =>
        /\ \A i \in DOMAIN result.explanations :
              LET e == result.explanations[i] IN
              \/ /\ Place(e) \in 1..7
                 /\ ~IsPositiveNote(e)
                 /\ PointsAtPlace(Place(e), account, AgeAtCall) > 0
              \/ IsPositiveNote(e) /\ result.risk_score < 40
        /\ result.risk_score >= 40 =>
              /\ Len(result.explanations) = NonZeroFactors(account, AgeAtCall)
              /\ \A i \in DOMAIN result.explanations : ~IsPositiveNote(result.explanations[i])

\* C13, amended: every explanation is that of a factor that gave more than 0
\* points, or the influencer note of the follow-ratio factor (0 points, at any
\* score, exactly when following > 0, followers / following > 10 and
\* followers > 5000), or one of the four positive signals, which are present
\* only below 40 points; from 40 points on the explanations are as many as
\* the factors that gave points, plus the influencer note where it applies.
C13_Explanations ==
    Scored =>
        /\ \A i \in DOMAIN result.explanations :
              LET e == result.explanations[i] IN
              \/ /\ Place(e) \in 1..7
                 /\ e[1] /= InfluencerNote
                 /\ PointsAtPlace(Place(e), account, AgeAtCall) > 0
              \/ e[1] = InfluencerNote /\ PointsAtPlace(2, account, AgeAtCall) = 0
              \/ Place(e) \in 8..11 /\ result.risk_score < 40
        /\ (\E i \in DOMAIN result.explanations : result.explanations[i][1] = InfluencerNote)
              <=> Influencer(account)
        /\ result.risk_score >= 40 =>
              /\ Len(result.explanations)
                    = NonZeroFactors(account, AgeAtCall) + (IF Influencer(account) THEN 1 ELSE 0)
              /\ \A i \in DOMAIN result.explanations : Place(result.explanations[i]) \in 1..7

\* a record of 40 points or more carries the influencer note
C13_Witness ==
    /\ Scored
    /\ result.risk_score >= 40
    /\ result.explanations[1] = <<InfluencerNote>>

\* C14: the running total before the cut at 100 never exceeds 100: the
\* factors give at most 15, 20, 20, 15, 15, 10 and 5 points, so the cut never
\* changes the value, and 100 is reached only with all seven factors in their
\* top bucket.
C14_CapNeverBinds ==
    Scored =>
        LET total == Factors(account, call_day).risk_score IN
        /\ total <= 100
        /\ result.risk_score = total
        /\ PointsOf(Factor1(account, call_day, Start)) <= 15
        /\ PointsOf(Factor2(account, Start)) <= 20
        /\ PointsOf(Factor3(account, Start)) <= 20
        /\ PointsOf(Factor4(account, Start)) <= 15
        /\ PointsOf(Factor5(account, Start)) <= 15
        /\ PointsOf(Factor6(account, Start)) <= 10
        /\ PointsOf(Factor7(account, Start)) <= 5
        /\ result.risk_score = 100 =>
              /\ AgeAtCall < 30
              /\ account.following > 2000 /\ account.followers < 100
              /\ account.posts_per_day > 1000
              /\ account.repetitive_content > 70
              /\ account.messages_sent_per_day > 50
              /\ account.suspicious_links > 40
              /\ account.network_flags > 3

\* a record with all seven factors in their top bucket has a total of 100
C14_Witness ==
    /\ Scored
    /\ Factors(account, call_day).risk_score = 100
    /\ Len(result.explanations) = 7
    /\ account.network_flags > 3

====
